---- MODULE Spec2Model ----
(***************************************************************************)
(* screamon: detectors (detectors/base.py, local_count.py, overview.py,    *)
(* targets.py), rectangle validation (capture/screen.py), the persistence  *)
(* calls the monitor makes (database.py) and the polling loop              *)
(* (monitor/runner.py).                                                    *)
(*                                                                         *)
(* Python values: an Optional[int] is <<>> (None) or <<n>>; a str is a     *)
(* sequence of one-character strings; an alert level is a string, with     *)
(* NoLevel for None.                                                       *)
(***************************************************************************)
EXTENDS Integers, Sequences, FiniteSets, TLC

\* ------------------------------------------------------------------ bounds
\* Detected counts range over 0..MaxCount.
MaxCount == 1
\* Polling cycles of the full runner specification.
MaxCycles == 2
\* Polling cycles of the misread-hysteresis specification.
MaxRun == 9
\* detect() calls per behaviour of the detector specification.
MaxDetects == 3
\* Coordinates of rectangles range over 0..MaxCoord.
MaxCoord == 1
\* Calibration requests the web server makes in one behaviour.
MaxRequests == 1
\* presses of the left button during one get_coords
MaxClicks == 3
\* filters in a PipelineConfig that is no preset
MaxFilters == 3
\* "Local [N] Corp [M]" is read with N in 0..MaxLocal and M in 0..MaxCorp
MaxLocal == 12
MaxCorp == 10
\* entries of the dict handed to configure_from_config
MaxItems == 3
\* length of the noisy texts OCR hands to local_count, and of what such a
\* text has between its markers
MaxNoise == 3
MaxInterior == 4

\* ------------------------------------------------------- python primitives
None == <<>>
Some(n) == <<n>>
IsNone(v) == v = <<>>
NoLevel == "None"

Digits == <<"0", "1", "2", "3", "4", "5", "6", "7", "8", "9">>
IsDigit(c) == \E k \in 1..10 : Digits[k] = c
DigitVal(c) == (CHOOSE k \in 1..10 : Digits[k] = c) - 1
\* str.isspace for the characters OCR text is built from
IsSpace(c) == c \in {" ", "\n", "\t"}

\* str(n) for n >= 0
RECURSIVE Str(_)
Str(n) == IF n < 10 THEN <<Digits[n + 1]>> ELSE Str(n \div 10) \o <<Digits[(n % 10) + 1]>>

\* DigitsValue with the digits weighted from the wrong end
RECURSIVE DigitsValue_reversed(_)
DigitsValue_reversed(s) ==
    IF Len(s) = 0 THEN 0
    ELSE 10 * DigitsValue_reversed(SubSeq(s, 2, Len(s))) + DigitVal(s[1])

\* value of a non-empty run of decimal digits
RECURSIVE DigitsValue(_)
DigitsValue(s) ==
    IF Len(s) = 0 THEN 0
    ELSE 10 * DigitsValue(SubSeq(s, 1, Len(s) - 1)) + DigitVal(s[Len(s)])

\* text[a:b] with 0 <= a (python slice, 0-based, b exclusive)
Slice(t, a, b) == SubSeq(t, a + 1, IF b > Len(t) THEN Len(t) ELSE b)

\* text.find(c, start): 0-based index of the first c at or after start, or -1
Find(t, c, start) ==
    LET hits == {i \in (start + 1)..Len(t) : t[i] = c}
    IN  IF hits = {} THEN -1 ELSE (CHOOSE i \in hits : \A j \in hits : i <= j) - 1

\* text.strip()
Strip(t) ==
    LET keep == {i \in 1..Len(t) : ~IsSpace(t[i])}
    IN  IF keep = {} THEN <<>>
        ELSE SubSeq(t, CHOOSE i \in keep : \A j \in keep : i <= j,
                       CHOOSE i \in keep : \A j \in keep : i >= j)

\* int(s): <<n>>, or <<>> where python raises ValueError.  Surrounding
\* whitespace, one leading sign and single underscores between digits are
\* accepted, as python does.
PyInt(s) ==
    LET t == Strip(s)
        signed == Len(t) > 0 /\ t[1] \in {"+", "-"}
        body == IF signed THEN SubSeq(t, 2, Len(t)) ELSE t
        \* single underscores between digits are skipped
        grouped == /\ Len(body) > 0
                   /\ IsDigit(body[1]) /\ IsDigit(body[Len(body)])
                   /\ \A i \in 1..Len(body) : IsDigit(body[i]) \/ body[i] = "_"
                   /\ \A i \in 1..(Len(body) - 1) : ~(body[i] = "_" /\ body[i + 1] = "_")
    IN  IF ~grouped THEN None
        ELSE IF signed /\ t[1] = "-" THEN Some(0 - DigitsValue(SelectSeq(body, IsDigit)))
        ELSE Some(DigitsValue(SelectSeq(body, IsDigit)))

\* ------------------------------------------- LocalCountDetector extraction
\* index of the first non-space character at or after i (Len(t)+1 if none): \s*
RECURSIVE SkipSpace(_, _)
SkipSpace(t, i) == IF i <= Len(t) /\ IsSpace(t[i]) THEN SkipSpace(t, i + 1) ELSE i

\* index of the first non-digit at or after i (Len(t)+1 if none): \d+ is greedy
RECURSIVE SkipDigits(_, _)
SkipDigits(t, i) == IF i <= Len(t) /\ IsDigit(t[i]) THEN SkipDigits(t, i + 1) ELSE i

\* \s*[\[\(](\d+)[\]\)] matched at index i: <<group(1), index after the match>>,
\* or <<>> if it does not match there
BracketedNumberAt(t, i) ==
    LET j == SkipSpace(t, i)
        k == SkipDigits(t, j + 1)
    IN  IF /\ j <= Len(t) /\ t[j] \in {"[", "("}
           /\ k > j + 1
           /\ k <= Len(t) /\ t[k] \in {"]", ")"}
        THEN <<SubSeq(t, j + 1, k - 1), k + 1>>
        ELSE <<>>

\* re.compile(r"[Ll]ocal\s*[\[\(](\d+)[\]\)]") matched at index i: group(1) or <<>>
Pattern1At(t, i) ==
    IF /\ i + 4 <= Len(t)
       /\ t[i] \in {"L", "l"}
       /\ SubSeq(t, i + 1, i + 4) = <<"o", "c", "a", "l">>
       /\ BracketedNumberAt(t, i + 5) # <<>>
    THEN <<BracketedNumberAt(t, i + 5)[1]>>
    ELSE <<>>

\* re.compile(r"l\s*[\[\(](\d+)[\]\)]\s*[Cc]") matched at index i: group(1) or <<>>
Pattern2At(t, i) ==
    IF i <= Len(t) /\ t[i] = "l" /\ BracketedNumberAt(t, i + 1) # <<>>
    THEN LET m == BracketedNumberAt(t, i + 1)
             c == SkipSpace(t, m[2])
         IN  IF c <= Len(t) /\ t[c] \in {"C", "c"} THEN <<m[1]>> ELSE <<>>
    ELSE <<>>

\* pattern.search(text): group(1) of the leftmost match, or <<>>
Search1(t) ==
    LET hits == {i \in 1..Len(t) : Pattern1At(t, i) # <<>>}
    IN  IF hits = {} THEN <<>>
        ELSE Pattern1At(t, CHOOSE i \in hits : \A j \in hits : i <= j)

Search2(t) ==
    LET hits == {i \in 1..Len(t) : Pattern2At(t, i) # <<>>}
    IN  IF hits = {} THEN <<>>
        ELSE Pattern2At(t, CHOOSE i \in hits : \A j \in hits : i <= j)

\* manual_extract with a blank between the markers treated as a missing
\* bracket
manual_extract_blank_fails(text) ==
    LET first_l == Find(text, "l", 0)
        corp_index == Find(text, "C", 0)
        local_index ==
            IF first_l # -1 /\ Len(text) > first_l + 1 /\ text[first_l + 2] = "o"
            THEN Find(text, "l", first_l + 1)
            ELSE first_l
        substring == Slice(text, local_index + 1, corp_index)
        open_sq == Find(substring, "[", 0)
        open_idx == IF open_sq = -1 THEN Find(substring, "(", 0) ELSE open_sq
        close_sq == Find(substring, "]", 0)
        close_idx == IF close_sq = -1 THEN Find(substring, ")", 0) ELSE close_sq
    IN  IF local_index = -1 \/ corp_index = -1 THEN None
        ELSE IF local_index > corp_index THEN None
        ELSE IF open_idx = -1 THEN None
        ELSE IF close_idx = -1 \/ close_idx <= open_idx THEN None
        ELSE PyInt(Strip(Slice(substring, open_idx + 1, close_idx)))

\* LocalCountDetector._manual_extract
manual_extract(text) ==
    LET first_l == Find(text, "l", 0)
        corp_index == Find(text, "C", 0)
        local_index ==
            IF first_l # -1 /\ Len(text) > first_l + 1 /\ text[first_l + 2] = "o"
            THEN Find(text, "l", first_l + 1)
            ELSE first_l
        substring == Slice(text, local_index + 1, corp_index)
        open_sq == Find(substring, "[", 0)
        open_idx == IF open_sq = -1 THEN Find(substring, "(", 0) ELSE open_sq
        close_sq == Find(substring, "]", 0)
        close_idx == IF close_sq = -1 THEN Find(substring, ")", 0) ELSE close_sq
    IN  IF local_index = -1 \/ corp_index = -1 THEN None
        ELSE IF local_index > corp_index THEN None
        ELSE IF Strip(substring) = <<>> THEN Some(0)
        ELSE IF open_idx = -1 THEN None
        ELSE IF close_idx = -1 \/ close_idx <= open_idx THEN None
        ELSE PyInt(Strip(Slice(substring, open_idx + 1, close_idx)))

\* LocalCountDetector._extract_value: int(match.group(1)) of a \d+ group never
\* raises, so the first pattern that matches decides
LocalCount_extract_value(text) ==
    IF Search1(text) # <<>> THEN PyInt(Search1(text)[1])
    ELSE IF Search2(text) # <<>> THEN PyInt(Search2(text)[1])
    ELSE manual_extract(text)

\* -------------------------------------------- OverviewDetector extraction
\* text.splitlines(), for the line boundary "\n"
RECURSIVE SplitLines(_)
SplitLines(t) ==
    IF Len(t) = 0 THEN <<>>
    ELSE LET nl == Find(t, "\n", 0)
         IN  IF nl = -1 THEN <<t>>
             ELSE <<Slice(t, 0, nl)>> \o SplitLines(Slice(t, nl + 1, Len(t)))

\* OverviewDetector._extract_value
Overview_extract_value(text) ==
    LET lines == SplitLines(text)
    IN  Some(Cardinality({i \in 1..Len(lines) : Strip(lines[i]) # <<>>}))

\* ---------------------------------------------- TargetDetector extraction
\* ASTEROID_VARIATIONS ("Asterold" is listed twice in the source)
ASTEROID_VARIATIONS ==
    << <<"A","s","t","e","r","o","i","d">>,
       <<"A","s","t","r","o","i","d">>,
       <<"A","s","t","e","r","a","i","d">>,
       <<"A","s","t","e","r","p","i","d">>,
       <<"A","s","t","e","r","o","c","i","d">>,
       <<"A","s","t","e","r","s","i","d">>,
       <<"A","s","t","e","r","o","l","d">>,
       <<"A","s","t","e","r","o","l","d">> >>

\* text.count(term): non-overlapping occurrences, left to right
RECURSIVE Count(_, _)
Count(t, term) ==
    IF Len(t) < Len(term) THEN 0
    ELSE IF SubSeq(t, 1, Len(term)) = term
         THEN 1 + Count(SubSeq(t, Len(term) + 1, Len(t)), term)
         ELSE Count(SubSeq(t, 2, Len(t)), term)

RECURSIVE SumCounts(_, _)
SumCounts(t, terms) ==
    IF Len(terms) = 0 THEN 0
    ELSE Count(t, terms[1]) + SumCounts(t, SubSeq(terms, 2, Len(terms)))

\* TargetDetector._extract_value
Target_extract_value(text) == Some(SumCounts(text, ASTEROID_VARIATIONS))

\* ------------------------------------------------------------------- state
VARIABLES
    \* BaseDetector fields, per detector name
    enabled, coords, pipeline_name, last_value, last_raw_text, error_count,
    \* MonitorRunner: self.running, self._misread_counts, the position of run()
    \* (pc), the detector the current loop is at (idx), run_once's results dict,
    \* the results of the CalibrationSession of calibrate_all in capture order
    running, misread_counts, pc, idx, results, session,
    \* collaborators: the detector_state table, the events table, the
    \* calibrate_<name> rows of runtime_config, the rectangles in config.json
    db_state, db_events, db_calib, saved_coords,
    \* observation of the environment: datetime.now() as a cycle number, the
    \* play_for_result call made for each detector in the current cycle, the
    \* detectors whose region run_once has captured in the current cycle, the
    \* value of each detector's last successful extraction, its number of
    \* consecutive failed extractions, and the number of requests the web
    \* server has handled
    clock, alerts, captured, last_good, fail_run, n_requests,
    \* the mouse library: the handlers in mouse._listener.handlers, the list
    \* storage of the get_coords call in progress, the left button
    handlers, storage, button,
    \* the default SoundPlayer: its enabled flag, and the playback threads
    \* that have been started and have not ended
    sound_enabled, playback,
    \* the web server process: the enabled flags and rectangles of its own
    \* AppConfig, and the DetectorState a toggle in progress has read
    web_enabled, web_coords, web_read,
    \* an ImageProcessor under construction: config.filters and self._filters
    filter_config, filters,
    \* a ThresholdFilter at work: self.value, the single-channel array it is
    \* applied to (a list of pixels), and the array it returns
    threshold_value, arr, thresh,
    \* configure_from_config: the items of the config dict, in its order
    config_items,
    \* has stop() been called
    stop_requested

detector_vars == <<enabled, coords, pipeline_name, last_value, last_raw_text, error_count>>
runner_vars == <<running, misread_counts, pc, idx, results, session>>
store_vars == <<db_state, db_events, db_calib, saved_coords>>
watch_vars == <<clock, alerts, captured, last_good, fail_run, n_requests>>
mouse_vars == <<handlers, storage, button>>
sound_vars == <<sound_enabled, playback>>
web_vars == <<web_enabled, web_coords, web_read>>
build_vars == <<filter_config, filters>>
threshold_vars == <<threshold_value, arr, thresh>>
registry_vars == <<config_items>>
stop_vars == <<stop_requested>>
vars == <<detector_vars, runner_vars, store_vars, watch_vars, mouse_vars, sound_vars,
         web_vars, build_vars, threshold_vars, registry_vars, stop_vars>>

\* create_default_registry: registration order
Detectors == <<"local_count", "overview", "targets">>
DetectorNames == {Detectors[i] : i \in 1..Len(Detectors)}

\* ------------------------------------------------------------- rectangles
\* A rectangle is a list of points, a point a list of coordinates.  NullCoord
\* stands for a JSON null (python None) where a number is expected.
NullCoord == -1
Rect(x1, y1, x2, y2) == <<<<x1, y1>>, <<x2, y2>>>>

\* coords_valid raises TypeError when it orders None against a number
coords_valid_raises(c) ==
    /\ Len(c) = 2
    /\ Len(c[1]) = 2 /\ Len(c[2]) = 2
    /\ \/ c[2][1] = NullCoord \/ c[1][1] = NullCoord
       \/ /\ ~(c[2][1] <= c[1][1])
          /\ (c[2][2] = NullCoord \/ c[1][2] = NullCoord)

\* coords_valid with the comparisons strict, so that zero width and zero
\* height pass
coords_valid_lenient(c) ==
    IF Len(c) = 0 \/ Len(c) # 2 THEN FALSE
    ELSE IF Len(c[1]) # 2 \/ Len(c[2]) # 2 THEN FALSE
    ELSE IF c[2][1] < c[1][1] \/ c[2][2] < c[1][2] THEN FALSE
    ELSE TRUE

\* coords_valid, where it returns
coords_valid(c) ==
    IF Len(c) = 0 \/ Len(c) # 2 THEN FALSE
    ELSE IF Len(c[1]) # 2 \/ Len(c[2]) # 2 THEN FALSE
    ELSE IF c[2][1] <= c[1][1] \/ c[2][2] <= c[1][2] THEN FALSE
    ELSE TRUE

\* ---------------------------------------------------------------- detect()
\* Presets as they would be if from_preset took every name for a preset
Presets_any_name == {"default_ocr", "star_background", "high_contrast", "no_such_preset"}

\* the presets ImageProcessor.from_preset knows
Presets == {"default_ocr", "star_background", "high_contrast"}

\* _extract_value of the detector registered under name d
extract_value(d, text) ==
    CASE d = "local_count" -> LocalCount_extract_value(text)
      [] d = "overview" -> Overview_extract_value(text)
      [] d = "targets" -> Target_extract_value(text)

\* determine_alert_level with the two directions exchanged
determine_alert_level_swapped(old_value, new_value) ==
    IF new_value > old_value THEN "decrease"
    ELSE IF new_value < old_value THEN "increase"
    ELSE NoLevel

\* _determine_alert_level (the same comparison in the three detectors)
determine_alert_level(old_value, new_value) ==
    IF new_value > old_value THEN "increase"
    ELSE IF new_value < old_value THEN "decrease"
    ELSE NoLevel

\* detect_failure as it would be if a misread cleared the last known value
detect_failure_clears(d, text) ==
    [result |-> [value |-> None, changed |-> FALSE, alert_level |-> "error",
                 raw_text |-> text, timestamp |-> clock],
     last_value |-> None,
     last_raw_text |-> last_raw_text[d],
     error_count |-> error_count[d] + 1]

\* detect(), extraction failed: the result and the detector's fields afterwards
detect_failure(d, text) ==
    [result |-> [value |-> None, changed |-> FALSE, alert_level |-> "error",
                 raw_text |-> text, timestamp |-> clock],
     last_value |-> last_value[d],
     last_raw_text |-> last_raw_text[d],
     error_count |-> error_count[d] + 1]

\* changed and alert_level of a successful detect()
detect_changed(value, last) == value # last
\* detect_alert_level as it would be if a missing prior value counted as 0
detect_alert_level_from_zero(value, last) ==
    IF detect_changed(value, last)
    THEN determine_alert_level(IF IsNone(last) THEN 0 ELSE last[1], value[1])
    ELSE NoLevel

detect_alert_level(value, last) ==
    IF detect_changed(value, last) /\ ~IsNone(last)
    THEN determine_alert_level(last[1], value[1])
    ELSE NoLevel

\* detect(), extraction succeeded with value
detect_success(d, text, value) ==
    [result |-> [value |-> value,
                 changed |-> detect_changed(value, last_value[d]),
                 alert_level |-> detect_alert_level(value, last_value[d]),
                 raw_text |-> text, timestamp |-> clock],
     last_value |-> value,
     last_raw_text |-> Some(text),
     error_count |-> 0]

\* detect() from the OCR text on: what it returns and what it leaves
detect(d, text) ==
    IF IsNone(extract_value(d, text))
    THEN detect_failure(d, text)
    ELSE detect_success(d, text, extract_value(d, text))

\* the detector's fields after detect() returned out
DetectorAfter(d, out) ==
    /\ last_value' = [last_value EXCEPT ![d] = out.last_value]
    /\ last_raw_text' = [last_raw_text EXCEPT ![d] = out.last_raw_text]
    /\ error_count' = [error_count EXCEPT ![d] = out.error_count]

\* what the environment saw of a detect() on text: the last good value and the
\* run of failures, told from the text alone
WatchAfter(d, text) ==
    /\ last_good' = [last_good EXCEPT ![d] =
            IF IsNone(extract_value(d, text)) THEN @ ELSE extract_value(d, text)]
    /\ fail_run' = [fail_run EXCEPT ![d] =
            IF IsNone(extract_value(d, text)) THEN @ + 1 ELSE 0]

\* ---------------------------------------------------------------- OCR texts
\* "Local [n] Corp [1]"
LocalText(n) ==
    <<"L", "o", "c", "a", "l", " ", "[">> \o Str(n)
        \o <<"]", " ", "C", "o", "r", "p", " ", "[", "1", "]">>
\* "Local(n)Corp(1)"
LocalParenText(n) ==
    <<"L", "o", "c", "a", "l", "(">> \o Str(n) \o <<")", "C", "o", "r", "p", "(", "1", ")">>
\* "Local [] Corp [1]": the count was not read
LocalMisread == <<"L", "o", "c", "a", "l", " ", "[", "]", " ", "C", "o", "r", "p", " ", "[", "1", "]">>
\* n overview rows "Ship", a blank line after each
RECURSIVE OverviewText(_)
OverviewText(n) ==
    IF n = 0 THEN <<" ", "\n">>
    ELSE <<"S", "h", "i", "p", "\n", "\n">> \o OverviewText(n - 1)
\* n targets "Astroid"
RECURSIVE TargetText(_)
TargetText(n) ==
    IF n = 0 THEN <<>>
    ELSE <<"A", "s", "t", "r", "o", "i", "d", " ">> \o TargetText(n - 1)

\* the texts OCR hands to the detector d
OcrTexts(d) ==
    CASE d = "local_count" ->
            {LocalText(n) : n \in 0..MaxCount} \cup {LocalMisread}
      [] d = "overview" -> {OverviewText(n) : n \in 0..MaxCount}
      [] d = "targets" -> {TargetText(n) : n \in 0..MaxCount}

\* no entry in the results dict
NoResult ==
    [value |-> None, changed |-> FALSE, alert_level |-> "not run", raw_text |-> <<>>,
     timestamp |-> 0]

\* ------------------------------------------------------------ configuration
\* the rectangles a config.json may hold for a detector: none, a list with a
\* null in it, and the rectangles from the origin to (b, b)
ConfigRects ==
    {<<>>, Rect(0, 0, NullCoord, 1)} \cup {Rect(0, 0, b, b) : b \in 0..MaxCoord}

\* DetectorConfig as AppConfig.load leaves it (no field is validated)
DetectorConfigs ==
    [enabled : BOOLEAN, coords : ConfigRects, pipeline : {"default_ocr", "no_such_preset"}]

\* the fields in which two DetectorConfigs differ
Differences(a, b) ==
    {f \in {"enabled", "coords", "pipeline"} : a[f] # b[f]}

\* AppConfig's defaults, calibrated
DefaultConfig(d) ==
    [enabled |-> (d # "targets"), coords |-> Rect(0, 0, 1, 1), pipeline |-> "default_ocr"]

\* the configurations behaviours start from: the default one, and each
\* configuration that differs from it in one field of one detector
Configs ==
    {c \in [DetectorNames -> DetectorConfigs] :
        /\ Cardinality({d \in DetectorNames : c[d] # DefaultConfig(d)}) <= 1
        /\ \A d \in DetectorNames :
                Cardinality(Differences(c[d], DefaultConfig(d))) <= 1}

\* MonitorRunner.__init__ and initialize() under configuration c
InitWith(c) ==
    /\ enabled = [d \in DetectorNames |-> c[d].enabled]
    /\ coords = [d \in DetectorNames |-> c[d].coords]
    /\ pipeline_name = [d \in DetectorNames |-> c[d].pipeline]
    /\ last_value = [d \in DetectorNames |-> None]
    /\ last_raw_text = [d \in DetectorNames |-> None]
    /\ error_count = [d \in DetectorNames |-> 0]
    /\ running = FALSE
    /\ misread_counts = [d \in DetectorNames |-> 0]
    /\ pc = "start"
    /\ idx = 1
    /\ results = [d \in DetectorNames |-> NoResult]
    /\ session = <<>>
    /\ db_state = [d \in DetectorNames |->
            [enabled |-> c[d].enabled, value |-> None, last_changed |-> None,
             raw_text |-> None]]
    /\ db_events = <<>>
    /\ db_calib = [d \in DetectorNames |-> FALSE]
    /\ saved_coords = [d \in DetectorNames |-> c[d].coords]
    /\ clock = 0
    /\ alerts = [d \in DetectorNames |-> NoLevel]
    /\ captured = {}
    /\ last_good = [d \in DetectorNames |-> None]
    /\ fail_run = [d \in DetectorNames |-> 0]
    /\ n_requests = 0
    /\ handlers = {}
    /\ storage = <<>>
    /\ button = "up"
    /\ sound_enabled = TRUE
    /\ playback = {}
    /\ web_enabled = [d \in DetectorNames |-> c[d].enabled]
    /\ web_coords = [d \in DetectorNames |-> c[d].coords]
    /\ web_read = <<>>
    /\ filter_config = <<>>
    /\ filters = <<>>
    /\ threshold_value = 180
    /\ arr = <<>>
    /\ thresh = <<>>
    /\ config_items = <<>>
    /\ stop_requested = FALSE

Init == \E c \in Configs : InitWith(c)

\* ------------------------------------------- detect() called on a detector
\* the texts the detector specification feeds detect(); "" is what
\* extract_text returns when the engine fails
DetectTexts(d) ==
    OcrTexts(d) \cup {<<>>} \cup
        (IF d = "local_count" THEN {LocalParenText(n) : n \in 0..MaxCount} ELSE {})

\* d.detect(image) where OCR reads text off the image
Detect(d, text) ==
    /\ clock < MaxDetects
    /\ pipeline_name[d] \in Presets
    /\ clock' = clock + 1
    /\ DetectorAfter(d, detect(d, text))
    /\ results' = [results EXCEPT ![d] = detect(d, text).result]
    /\ WatchAfter(d, text)
    /\ UNCHANGED <<enabled, coords, pipeline_name, running, misread_counts, pc, idx,
                   store_vars, alerts, captured, n_requests, session, mouse_vars,
                   sound_vars, web_vars, build_vars,
                   threshold_vars, registry_vars, stop_vars>>

\* d.detect(image) with a pipeline name from_preset does not know: ValueError
\* before OCR, nothing is assigned
DetectRaises(d) ==
    /\ clock < MaxDetects
    /\ pipeline_name[d] \notin Presets
    /\ clock' = clock + 1
    /\ UNCHANGED <<detector_vars, runner_vars, store_vars, alerts, captured, last_good,
                   fail_run,
                   n_requests, mouse_vars, sound_vars, web_vars, build_vars,
                   threshold_vars, registry_vars, stop_vars>>

\* the detectors as configured by default, or with one pipeline name that is
\* no preset
InitDetect ==
    \E c \in Configs :
        /\ \A d \in DetectorNames : Differences(c[d], DefaultConfig(d)) \subseteq {"pipeline"}
        /\ InitWith(c)

NextDetect ==
    \E d \in DetectorNames :
        \/ \E text \in DetectTexts(d) : Detect(d, text)
        \/ DetectRaises(d)

SpecDetect == InitDetect /\ [][NextDetect]_vars

\* ------------------------------------------------------ MonitorRunner.run()
\* the pairs of clicks get_coords returns
ClickRects == {Rect(a, a, b, b) : a \in 0..MaxCoord, b \in 0..(MaxCoord + 1)}

\* misread_alert with the repeat one miss early
misread_alert_early(count) == count <= 1 \/ count > 3

\* run_once, misread branch: with the counter already incremented to count,
\* is play_for_result("error") called
misread_alert(count) == count <= 1 \/ count > 4

\* misread_next as it would be if the counter were left alone after an alert
misread_next_counting(count) == count + 1

\* run_once, misread branch: the counter afterwards, from the counter before
misread_next(count) == IF misread_alert(count + 1) THEN 1 ELSE count + 1

\* run_once: is the transition alerted and recorded
transition_alert(result) == result.changed /\ result.alert_level # NoLevel

\* run_once: the DetectorState written for a successful result
detector_state(d, result, timestamp) ==
    [enabled |-> enabled[d],
     value |-> result.value,
     last_changed |-> IF result.changed THEN Some(timestamp) ELSE None,
     raw_text |-> Some(result.raw_text)]

\* run_once: the Event appended for a transition; old_value is read from the
\* detector after detect() returned out
event_record(d, out, timestamp) ==
    [detector |-> d,
     event_type |-> out.result.alert_level,
     old_value |-> out.last_value,
     new_value |-> out.result.value,
     timestamp |-> timestamp,
     raw_text |-> out.result.raw_text]

\* where run() is while it is live, and where it ended on an exception that
\* nothing caught (run() catches KeyboardInterrupt alone)
Live == {"start", "loop", "calib", "calibrate", "detect", "sleep"}
Raised == {"raised in check_calibration_request", "raised in get_coords",
           "raised in config.save", "raised in coords_valid"}

\* run(): self.running = True, then the loop
RunStart ==
    /\ pc = "start"
    /\ running' = TRUE
    /\ pc' = "loop"
    /\ UNCHANGED <<detector_vars, misread_counts, idx, results, store_vars, watch_vars,
                   session, mouse_vars, sound_vars, web_vars, build_vars,
                   threshold_vars, registry_vars, stop_vars>>

\* LoopEnter with the test of self.running left out
LoopEnter_unconditional(cycles) ==
    /\ pc = "loop"
    /\ clock < cycles
    /\ clock' = clock + 1
    /\ pc' = "calib" /\ idx' = 1
    /\ UNCHANGED <<detector_vars, running, misread_counts, results, store_vars,
                   alerts, captured, last_good, fail_run, n_requests, session,
                   mouse_vars, sound_vars, web_vars, build_vars,
                   threshold_vars, registry_vars, stop_vars>>

\* while self.running: a cycle begins with loop_start = time.time(); the
\* behaviour has at most cycles of them
LoopEnter(cycles) ==
    /\ pc = "loop" /\ running
    /\ clock < cycles
    /\ clock' = clock + 1
    /\ pc' = "calib" /\ idx' = 1
    /\ UNCHANGED <<detector_vars, running, misread_counts, results, store_vars,
                   alerts, captured, last_good, fail_run, n_requests, session,
                   mouse_vars, sound_vars, web_vars, build_vars,
                   threshold_vars, registry_vars, stop_vars>>

\* while self.running: the flag is down, run() returns
LoopExit ==
    /\ pc = "loop" /\ ~running
    /\ pc' = "done"
    /\ UNCHANGED <<detector_vars, running, misread_counts, idx, results, store_vars,
                   watch_vars, session, mouse_vars, sound_vars, web_vars, build_vars,
                   threshold_vars, registry_vars, stop_vars>>

\* the loop of check_calibration_requests moves to the next detector, and
\* after the last one run_once starts with an empty results dict
CalibAdvance ==
    IF idx < Len(Detectors)
    THEN /\ pc' = "calib" /\ idx' = idx + 1
         /\ UNCHANGED <<results, alerts, captured>>
    ELSE /\ pc' = "detect" /\ idx' = 1
         /\ results' = [d \in DetectorNames |-> NoResult]
         /\ alerts' = [d \in DetectorNames |-> NoLevel]
         /\ captured' = {}

\* check_calibration_request(name): no request
CalibrationNotRequested ==
    /\ pc = "calib"
    /\ ~db_calib[Detectors[idx]]
    /\ CalibAdvance
    /\ UNCHANGED <<detector_vars, running, misread_counts, store_vars, clock,
                   last_good, fail_run, n_requests, session, mouse_vars, sound_vars,
                   web_vars, build_vars,
                   threshold_vars, registry_vars, stop_vars>>

\* CalibrationRequested with the request left set until after the recapture
CalibrationRequested_keeps_request ==
    /\ pc = "calib"
    /\ db_calib[Detectors[idx]]
    /\ pc' = "calibrate"
    /\ UNCHANGED <<detector_vars, running, misread_counts, idx, results, store_vars,
                   watch_vars, session, mouse_vars, sound_vars, web_vars, build_vars,
                   threshold_vars, registry_vars, stop_vars>>

\* check_calibration_request(name): the request is read and cleared, then
\* calibrate_detector is entered
CalibrationRequested ==
    /\ pc = "calib"
    /\ db_calib[Detectors[idx]]
    /\ db_calib' = [db_calib EXCEPT ![Detectors[idx]] = FALSE]
    /\ pc' = "calibrate"
    /\ UNCHANGED <<detector_vars, running, misread_counts, idx, results, db_state,
                   db_events, saved_coords, watch_vars, session, mouse_vars,
                   sound_vars, web_vars, build_vars,
                   threshold_vars, registry_vars, stop_vars>>

\* check_calibration_request(name): the read, or the write that clears the
\* request, raises; nothing in check_calibration_requests or run() catches it
CalibrationCheckRaises ==
    /\ pc = "calib"
    /\ pc' = "raised in check_calibration_request"
    /\ UNCHANGED <<detector_vars, running, misread_counts, idx, results, store_vars,
                   watch_vars, session, mouse_vars, sound_vars, web_vars, build_vars,
                   threshold_vars, registry_vars, stop_vars>>

\* calibrate_detector: the clicks are no valid rectangle, return False
CalibrateInvalid(clicks) ==
    /\ pc = "calibrate"
    /\ ~coords_valid(clicks)
    /\ CalibAdvance
    /\ UNCHANGED <<detector_vars, running, misread_counts, store_vars, clock,
                   last_good, fail_run, n_requests, session, mouse_vars, sound_vars,
                   web_vars, build_vars,
                   threshold_vars, registry_vars, stop_vars>>

\* calibrate_detector: configure(coords), then config.save
CalibrateApply(clicks) ==
    /\ pc = "calibrate"
    /\ coords_valid(clicks)
    /\ coords' = [coords EXCEPT ![Detectors[idx]] = clicks]
    /\ saved_coords' = [saved_coords EXCEPT ![Detectors[idx]] = clicks]
    /\ CalibAdvance
    /\ UNCHANGED <<enabled, pipeline_name, last_value, last_raw_text, error_count,
                   running, misread_counts, db_state, db_events, db_calib, clock,
                   last_good, fail_run, n_requests, session, mouse_vars, sound_vars,
                   web_vars, build_vars,
                   threshold_vars, registry_vars, stop_vars>>

\* calibrate_detector: configure(coords) done, config.save raises
CalibrateSaveRaises(clicks) ==
    /\ pc = "calibrate"
    /\ coords_valid(clicks)
    /\ coords' = [coords EXCEPT ![Detectors[idx]] = clicks]
    /\ pc' = "raised in config.save"
    /\ UNCHANGED <<enabled, pipeline_name, last_value, last_raw_text, error_count,
                   running, misread_counts, idx, results, store_vars, watch_vars,
                   session, mouse_vars, sound_vars, web_vars, build_vars,
                   threshold_vars, registry_vars, stop_vars>>

\* calibrate_detector: get_coords raises
CalibrateCaptureRaises ==
    /\ pc = "calibrate"
    /\ pc' = "raised in get_coords"
    /\ UNCHANGED <<detector_vars, running, misread_counts, idx, results, store_vars,
                   watch_vars, session, mouse_vars, sound_vars, web_vars, build_vars,
                   threshold_vars, registry_vars, stop_vars>>

\* the loop of run_once moves to the next detector; after the last one run()
\* sleeps
DetectAdvance ==
    IF idx < Len(Detectors)
    THEN pc' = "detect" /\ idx' = idx + 1
    ELSE pc' = "sleep" /\ idx' = 1

\* is the detector at idx one run_once captures
Captured(d) == enabled[d] /\ ~coords_valid_raises(coords[d]) /\ coords_valid(coords[d])

\* run_once: the detector is not in registry.enabled(), or coords_valid is False
SkipDetector ==
    /\ pc = "detect"
    /\ \/ ~enabled[Detectors[idx]]
       \/ /\ ~coords_valid_raises(coords[Detectors[idx]])
          /\ ~coords_valid(coords[Detectors[idx]])
    /\ DetectAdvance
    /\ UNCHANGED <<detector_vars, running, misread_counts, results, store_vars,
                   watch_vars, session, mouse_vars, sound_vars, web_vars, build_vars,
                   threshold_vars, registry_vars, stop_vars>>

\* run_once: coords_valid(detector.coords) raises, outside the try block
CoordsCheckRaises ==
    /\ pc = "detect"
    /\ enabled[Detectors[idx]]
    /\ coords_valid_raises(coords[Detectors[idx]])
    /\ pc' = "raised in coords_valid"
    /\ UNCHANGED <<detector_vars, running, misread_counts, idx, results, store_vars,
                   watch_vars, session, mouse_vars, sound_vars, web_vars, build_vars,
                   threshold_vars, registry_vars, stop_vars>>

\* run_once: capture_region, from_preset or process raises; the except clause
\* logs it
DetectorFault ==
    /\ pc = "detect"
    /\ Captured(Detectors[idx])
    /\ captured' = captured \cup {Detectors[idx]}
    /\ DetectAdvance
    /\ UNCHANGED <<detector_vars, running, misread_counts, results, store_vars,
                   clock, alerts, last_good, fail_run, n_requests, session, mouse_vars,
                   sound_vars, web_vars, build_vars,
                   threshold_vars, registry_vars, stop_vars>>

\* play with blocking playback: the sound is over when play returns
play_blocking(level, d) == playback

\* play_for_result(level) for detector d, blocking = False: nothing when the
\* player is disabled, else _play_sound is started on a daemon thread
play(level, d) ==
    IF sound_enabled
    THEN playback \cup {[detector |-> d, level |-> level, at |-> clock]}
    ELSE playback

\* how a playback thread ends: the sound was played; the player failed and
\* the error was logged; no native player and no simpleaudio, which disables
\* the SoundPlayer
PlaybackOutcomes == {"played", "failed", "no backend"}

\* _play_sound on its thread comes to its end
PlaybackEnds(t, outcome) ==
    /\ t \in playback
    /\ playback' = playback \ {t}
    /\ sound_enabled' = IF outcome = "no backend" THEN FALSE ELSE sound_enabled
    /\ UNCHANGED <<detector_vars, runner_vars, store_vars, watch_vars, mouse_vars, web_vars,
                   build_vars,
                   threshold_vars, registry_vars, stop_vars>>

\* run_once: detect() returned alert_level "error"
HandleMisread(text) ==
    LET d == Detectors[idx]
        out == detect(d, text)
    IN  /\ pc = "detect"
        /\ Captured(d)
        /\ pipeline_name[d] \in Presets
        /\ out.result.alert_level = "error"
        /\ DetectorAfter(d, out)
        /\ results' = [results EXCEPT ![d] = out.result]
        /\ misread_counts' = [misread_counts EXCEPT ![d] = misread_next(@)]
        /\ alerts' = [alerts EXCEPT ![d] =
                IF misread_alert(misread_counts[d] + 1) THEN "error" ELSE NoLevel]
        /\ playback' = IF misread_alert(misread_counts[d] + 1)
                        THEN play("error", d) ELSE playback
        /\ WatchAfter(d, text)
        /\ captured' = captured \cup {d}
        /\ DetectAdvance
        /\ UNCHANGED <<enabled, coords, pipeline_name, running, store_vars, clock,
                       n_requests, session, mouse_vars, sound_enabled, web_vars,
                       build_vars,
                   threshold_vars, registry_vars, stop_vars>>

\* run_once: detect() returned a value.  fault names the persistence call that
\* raises, if one does; the except clause logs it and the detector is left
HandleSuccess(text, fault) ==
    LET d == Detectors[idx]
        out == detect(d, text)
        alert == transition_alert(out.result)
    IN  /\ pc = "detect"
        /\ Captured(d)
        /\ pipeline_name[d] \in Presets
        /\ out.result.alert_level # "error"
        /\ fault = "add_event" => alert
        /\ DetectorAfter(d, out)
        /\ results' = [results EXCEPT ![d] = out.result]
        /\ misread_counts' = [misread_counts EXCEPT ![d] = 0]
        /\ db_state' = IF fault = "set_detector_state" THEN db_state
                       ELSE [db_state EXCEPT ![d] = detector_state(d, out.result, clock)]
        /\ alerts' = [alerts EXCEPT ![d] =
                IF fault # "set_detector_state" /\ alert
                THEN out.result.alert_level ELSE NoLevel]
        /\ db_events' = IF fault = "none" /\ alert
                        THEN Append(db_events, event_record(d, out, clock))
                        ELSE db_events
        /\ WatchAfter(d, text)
        /\ playback' = IF fault # "set_detector_state" /\ alert
                        THEN play(out.result.alert_level, d) ELSE playback
        /\ captured' = captured \cup {d}
        /\ DetectAdvance
        /\ UNCHANGED <<enabled, coords, pipeline_name, running, db_calib,
                       saved_coords, clock, n_requests, session, mouse_vars,
                       sound_enabled, web_vars, build_vars,
                   threshold_vars, registry_vars, stop_vars>>

\* time.sleep(sleep_time), then back to the loop test
Sleep ==
    /\ pc = "sleep"
    /\ pc' = "loop"
    /\ UNCHANGED <<detector_vars, running, misread_counts, idx, results, store_vars,
                   watch_vars, session, mouse_vars, sound_vars, web_vars, build_vars,
                   threshold_vars, registry_vars, stop_vars>>

\* stop(), from another thread
Stop ==
    /\ pc \in Live
    /\ running
    /\ running' = FALSE
    /\ stop_requested' = TRUE
    /\ UNCHANGED <<detector_vars, misread_counts, pc, idx, results, store_vars,
                   watch_vars, session, mouse_vars, sound_vars, web_vars, build_vars,
                   threshold_vars, registry_vars>>

\* stop(), from another thread, while run() has not yet raised the flag
StopBeforeRun ==
    /\ pc = "start"
    /\ running' = FALSE
    /\ stop_requested' = TRUE
    /\ UNCHANGED <<detector_vars, misread_counts, pc, idx, results, store_vars,
                   watch_vars, session, mouse_vars, sound_vars, web_vars, build_vars,
                   threshold_vars, registry_vars>>

\* the web server's request_calibration route: set_calibration_request(name)
RequestCalibration(d) ==
    /\ pc \in Live
    /\ n_requests < MaxRequests
    /\ n_requests' = n_requests + 1
    /\ db_calib' = [db_calib EXCEPT ![d] = TRUE]
    /\ UNCHANGED <<detector_vars, runner_vars, db_state, db_events, saved_coords,
                   clock, alerts, captured, last_good, fail_run, mouse_vars,
                   sound_vars, web_vars, build_vars,
                   threshold_vars, registry_vars, stop_vars>>

\* the web server's toggle_detector route, first part: the flag of its own
\* config is flipped, config.save writes its config, get_detector_state reads
\* the row
ToggleRead(d) ==
    /\ pc \in Live
    /\ n_requests < MaxRequests
    /\ web_read = <<>>
    /\ n_requests' = n_requests + 1
    /\ web_enabled' = [web_enabled EXCEPT ![d] = ~@]
    /\ saved_coords' = web_coords
    /\ web_read' = <<[name |-> d, state |-> db_state[d]]>>
    /\ UNCHANGED <<detector_vars, runner_vars, db_state, db_events, db_calib, clock,
                   alerts, captured, last_good, fail_run, mouse_vars, sound_vars,
                   web_coords, build_vars,
                   threshold_vars, registry_vars, stop_vars>>

\* toggle_detector, second part: state.enabled is set and set_detector_state
\* writes the row that was read
ToggleWrite ==
    /\ web_read # <<>>
    /\ db_state' = [db_state EXCEPT ![web_read[1].name] =
            [web_read[1].state EXCEPT !.enabled = web_enabled[web_read[1].name]]]
    /\ web_read' = <<>>
    /\ UNCHANGED <<detector_vars, runner_vars, db_events, db_calib, saved_coords,
                   watch_vars, mouse_vars, sound_vars, web_enabled, web_coords,
                   build_vars,
                   threshold_vars, registry_vars, stop_vars>>

PersistenceFaults == {"none", "set_detector_state", "add_event"}

\* one polling cycle without a calibration request: the flag checks, then
\* run_once over OCR texts and persistence faults
Cycle ==
    \/ CalibrationNotRequested
    \/ CalibrationCheckRaises
    \/ SkipDetector
    \/ CoordsCheckRaises
    \/ DetectorFault
    \/ \E text \in OcrTexts(Detectors[idx]) : HandleMisread(text)
    \/ \E text \in OcrTexts(Detectors[idx]), fault \in PersistenceFaults :
            HandleSuccess(text, fault)
    \/ Sleep

\* the monitor polling, no calibration requested and stop() not called
Next ==
    \/ RunStart
    \/ LoopEnter(MaxCycles)
    \/ Cycle

Spec == Init /\ [][Next]_vars

\* ------------------------------------------------- the misread hysteresis
\* local_count alone, calibrated, through MaxRun cycles: its count is read,
\* misread, or the capture fails
InitHyst ==
    InitWith([d \in DetectorNames |->
        [DefaultConfig(d) EXCEPT !.enabled = (d = "local_count")]])

NextHyst ==
    \/ RunStart
    \/ LoopEnter(MaxRun)
    \/ CalibrationNotRequested
    \/ SkipDetector
    \/ DetectorFault
    \/ HandleMisread(LocalMisread)
    \/ HandleSuccess(LocalText(0), "none")
    \/ Sleep

SpecHyst == InitHyst /\ [][NextHyst]_vars

\* ------------------------------------------------- calibration on request
\* the monitor polling while the web server requests calibrations; every
\* detector reads the same text in every cycle
CalibTexts(d) ==
    CASE d = "local_count" -> LocalText(0)
      [] d = "overview" -> OverviewText(0)
      [] d = "targets" -> TargetText(0)

NextCalib ==
    \/ RunStart
    \/ LoopEnter(MaxCycles)
    \/ CalibrationNotRequested
    \/ CalibrationRequested
    \/ CalibrationCheckRaises
    \/ \E clicks \in ClickRects : CalibrateInvalid(clicks)
    \/ \E clicks \in ClickRects : CalibrateApply(clicks)
    \/ \E clicks \in ClickRects : CalibrateSaveRaises(clicks)
    \/ CalibrateCaptureRaises
    \/ SkipDetector
    \/ CoordsCheckRaises
    \/ DetectorFault
    \/ HandleSuccess(CalibTexts(Detectors[idx]), "none")
    \/ Sleep
    \/ \E d \in DetectorNames : RequestCalibration(d)

SpecCalib == Init /\ [][NextCalib]_vars

\* --------------------------------------------- building an ImageProcessor
\* FILTER_REGISTRY
FILTER_REGISTRY ==
    {"upscale", "contrast", "grayscale", "threshold", "denoise", "star_removal",
     "invert", "adaptive_threshold"}

\* the filters of the preset PipelineConfigs
PresetFilters(preset_name) ==
    CASE preset_name = "default_ocr" -> <<"upscale", "contrast", "grayscale", "threshold">>
      [] preset_name = "star_background" ->
            <<"star_removal", "upscale", "contrast", "grayscale", "threshold">>
      [] preset_name = "high_contrast" ->
            <<"upscale", "contrast", "grayscale", "adaptive_threshold">>

\* the names a PipelineConfig written by hand is made of: two filters of the
\* registry and one name that is in no registry
FilterChoices == {"upscale", "grayscale", "sharpen"}

\* the filter lists of the PipelineConfigs written by hand
CustomFilters ==
    UNION {[1..n -> FilterChoices] : n \in 0..MaxFilters}

\* ImageProcessor.from_preset(preset_name) with a preset it knows:
\* cls(presets[preset_name]()) enters __init__
FromPreset(preset_name) ==
    /\ pc = "start"
    /\ preset_name \in Presets
    /\ filter_config' = PresetFilters(preset_name)
    /\ filters' = <<>>
    /\ pc' = "build" /\ idx' = 1
    /\ UNCHANGED <<detector_vars, running, misread_counts, results, session,
                   store_vars, watch_vars, mouse_vars, sound_vars, web_vars,
                   threshold_vars, registry_vars, stop_vars>>

\* ImageProcessor.from_preset(preset_name) with a name that is no preset:
\* ValueError, __init__ is not entered
FromPresetRaises ==
    /\ pc = "start"
    /\ pc' = "raised in from_preset"
    /\ UNCHANGED <<detector_vars, running, misread_counts, idx, results, session,
                   store_vars, watch_vars, mouse_vars, sound_vars, web_vars,
                   build_vars,
                   threshold_vars, registry_vars, stop_vars>>

\* ImageProcessor(config): __init__ with a PipelineConfig written by hand
NewProcessor(names) ==
    /\ pc = "start"
    /\ filter_config' = names
    /\ filters' = <<>>
    /\ pc' = "build" /\ idx' = 1
    /\ UNCHANGED <<detector_vars, running, misread_counts, results, session,
                   store_vars, watch_vars, mouse_vars, sound_vars, web_vars,
                   threshold_vars, registry_vars, stop_vars>>

\* BuildFilter with an unknown name logged and passed over
BuildFilter_skips_unknown ==
    /\ pc = "build"
    /\ idx <= Len(filter_config)
    /\ filters' = IF filter_config[idx] \in FILTER_REGISTRY
                  THEN Append(filters, filter_config[idx]) ELSE filters
    /\ idx' = idx + 1
    /\ UNCHANGED <<detector_vars, running, misread_counts, pc, results, session,
                   store_vars, watch_vars, mouse_vars, sound_vars, web_vars,
                   filter_config,
                   threshold_vars, registry_vars, stop_vars>>

\* _build_filters, one turn of the loop: create_filter returns the filter,
\* which is appended, or raises ValueError, which is logged and raised again
BuildFilter ==
    /\ pc = "build"
    /\ idx <= Len(filter_config)
    /\ IF filter_config[idx] \in FILTER_REGISTRY
       THEN /\ filters' = Append(filters, filter_config[idx])
            /\ idx' = idx + 1
            /\ pc' = pc
       ELSE /\ pc' = "raised in create_filter"
            /\ UNCHANGED <<filters, idx>>
    /\ UNCHANGED <<detector_vars, running, misread_counts, results, session,
                   store_vars, watch_vars, mouse_vars, sound_vars, web_vars,
                   filter_config,
                   threshold_vars, registry_vars, stop_vars>>

\* _build_filters returns, __init__ returns the ImageProcessor
BuildDone ==
    /\ pc = "build"
    /\ idx > Len(filter_config)
    /\ pc' = "built"
    /\ UNCHANGED <<detector_vars, running, misread_counts, idx, results, session,
                   store_vars, watch_vars, mouse_vars, sound_vars, web_vars,
                   build_vars,
                   threshold_vars, registry_vars, stop_vars>>

InitDefault == InitWith([d \in DetectorNames |-> DefaultConfig(d)])

NextBuild ==
    \/ \E preset_name \in Presets : FromPreset(preset_name)
    \/ FromPresetRaises
    \/ \E names \in CustomFilters : NewProcessor(names)
    \/ BuildFilter
    \/ BuildDone

SpecBuild == InitDefault /\ [][NextBuild]_vars

\* ------------------------------------------ reset() and configure() in use
\* Reset with the error counter left as it is
Reset_keeps_errors(d) ==
    /\ last_value' = [last_value EXCEPT ![d] = None]
    /\ last_raw_text' = [last_raw_text EXCEPT ![d] = None]
    /\ UNCHANGED <<enabled, coords, pipeline_name, error_count, runner_vars,
                   store_vars, watch_vars, mouse_vars, sound_vars, web_vars,
                   build_vars,
                   threshold_vars, registry_vars, stop_vars>>

\* d.reset()
Reset(d) ==
    /\ last_value' = [last_value EXCEPT ![d] = None]
    /\ last_raw_text' = [last_raw_text EXCEPT ![d] = None]
    /\ error_count' = [error_count EXCEPT ![d] = 0]
    /\ UNCHANGED <<enabled, coords, pipeline_name, runner_vars, store_vars,
                   watch_vars, mouse_vars, sound_vars, web_vars, build_vars,
                   threshold_vars, registry_vars, stop_vars>>

\* the options configure() is called with: "pipeline" and "enabled" are each
\* given (a one-element tuple) or absent
ConfigureOptions ==
    [pipeline : {<<>>, <<"star_background">>}, enabled : {<<>>, <<FALSE>>}]

\* Configure with the accumulated state cleared, as a new detector has it
Configure_rebaselines(d, rect, options) ==
    /\ coords' = [coords EXCEPT ![d] = rect]
    /\ pipeline_name' = [pipeline_name EXCEPT ![d] =
            IF options.pipeline # <<>> THEN options.pipeline[1] ELSE @]
    /\ enabled' = [enabled EXCEPT ![d] =
            IF options.enabled # <<>> THEN options.enabled[1] ELSE @]
    /\ last_value' = [last_value EXCEPT ![d] = None]
    /\ last_raw_text' = [last_raw_text EXCEPT ![d] = None]
    /\ error_count' = [error_count EXCEPT ![d] = 0]
    /\ UNCHANGED <<runner_vars, store_vars, watch_vars, mouse_vars, sound_vars,
                   web_vars, build_vars,
                   threshold_vars, registry_vars, stop_vars>>

\* d.configure(rect, **options)
Configure(d, rect, options) ==
    /\ coords' = [coords EXCEPT ![d] = rect]
    /\ pipeline_name' = [pipeline_name EXCEPT ![d] =
            IF options.pipeline # <<>> THEN options.pipeline[1] ELSE @]
    /\ enabled' = [enabled EXCEPT ![d] =
            IF options.enabled # <<>> THEN options.enabled[1] ELSE @]
    /\ UNCHANGED <<last_value, last_raw_text, error_count, runner_vars, store_vars,
                   watch_vars, mouse_vars, sound_vars, web_vars, build_vars,
                   threshold_vars, registry_vars, stop_vars>>

\* the texts local_count reads in the life of the detector: a count, or none
LifeTexts == {LocalText(n) : n \in 0..MaxCount} \cup {LocalMisread}

\* local_count through detect(), reset() and configure() in any order
NextLife ==
    \/ \E text \in LifeTexts : Detect("local_count", text)
    \/ DetectRaises("local_count")
    \/ Reset("local_count")
    \/ \E options \in ConfigureOptions :
            Configure("local_count", Rect(0, 0, MaxCoord + 1, MaxCoord + 1), options)

SpecLife == InitDetect /\ [][NextLife]_vars

\* ---------------------------------------------------------- calibrate_all
\* calibrate_all: a CalibrationSession with a region for every detector of
\* the registry, started blocking
CalibrateAllStart ==
    /\ pc = "start"
    /\ pc' = "calibrate_all" /\ idx' = 1
    /\ session' = <<>>
    /\ UNCHANGED <<detector_vars, running, misread_counts, results, store_vars,
                   watch_vars, mouse_vars, sound_vars, web_vars, build_vars,
                   threshold_vars, registry_vars, stop_vars>>

\* CalibrateAllRegion with the rectangle applied to the detector at once
CalibrateAllRegion_applies(clicks) ==
    /\ pc = "calibrate_all"
    /\ session' = Append(session, clicks)
    /\ coords' = [coords EXCEPT ![Detectors[idx]] = clicks]
    /\ IF idx < Len(Detectors)
       THEN pc' = pc /\ idx' = idx + 1
       ELSE pc' = "on_complete" /\ idx' = 1
    /\ UNCHANGED <<enabled, pipeline_name, last_value, last_raw_text, error_count,
                   running, misread_counts, results, store_vars, watch_vars,
                   mouse_vars, sound_vars, web_vars, build_vars,
                   threshold_vars, registry_vars, stop_vars>>

\* _run_calibration: get_coords for the next region returns clicks, which are
\* kept in session.results
CalibrateAllRegion(clicks) ==
    /\ pc = "calibrate_all"
    /\ session' = Append(session, clicks)
    /\ IF idx < Len(Detectors)
       THEN pc' = pc /\ idx' = idx + 1
       ELSE pc' = "on_complete" /\ idx' = 1
    /\ UNCHANGED <<detector_vars, running, misread_counts, results, store_vars,
                   watch_vars, mouse_vars, sound_vars, web_vars, build_vars,
                   threshold_vars, registry_vars, stop_vars>>

\* _run_calibration: get_coords raises; calibrate_all catches nothing
CalibrateAllAborts ==
    /\ pc = "calibrate_all"
    /\ pc' = "raised in get_coords"
    /\ UNCHANGED <<detector_vars, running, misread_counts, idx, results, session,
                   store_vars, watch_vars, mouse_vars, sound_vars, web_vars,
                   build_vars,
                   threshold_vars, registry_vars, stop_vars>>

\* on_complete: the rectangles of the detectors whose clicks are valid
on_complete_coords(current) ==
    [d \in DetectorNames |->
        LET i == CHOOSE j \in 1..Len(Detectors) : Detectors[j] = d
        IN  IF coords_valid(session[i]) THEN session[i] ELSE current[d]]

\* on_complete: every valid rectangle is configured, then config.save; saved
\* tells whether config.save returns or raises
CalibrateAllComplete(saved) ==
    /\ pc = "on_complete"
    /\ coords' = on_complete_coords(coords)
    /\ saved_coords' = IF saved THEN on_complete_coords(saved_coords) ELSE saved_coords
    /\ pc' = IF saved THEN "calibrated" ELSE "raised in config.save"
    /\ UNCHANGED <<enabled, pipeline_name, last_value, last_raw_text, error_count,
                   running, misread_counts, idx, results, session, db_state, db_events,
                   db_calib, watch_vars, mouse_vars, sound_vars, web_vars, build_vars,
                   threshold_vars, registry_vars, stop_vars>>

NextCalibAll ==
    \/ CalibrateAllStart
    \/ \E clicks \in ClickRects : CalibrateAllRegion(clicks)
    \/ CalibrateAllAborts
    \/ \E saved \in BOOLEAN : CalibrateAllComplete(saved)

SpecCalibAll == Init /\ [][NextCalibAll]_vars

\* -------------------------------------------------------------- get_coords
\* where the pointer can be when the button goes down
Positions == {<<a, a>> : a \in 0..(MaxCoord + 1)}

\* get_coords: storage = [], mouse.on_pressed(store_click), then the first
\* mouse.wait; the button may be held down when the call is made
GetCoordsStart(held) ==
    /\ pc = "start"
    /\ storage' = <<>>
    /\ handlers' = handlers \cup {"store_click"}
    /\ button' = IF held THEN "down" ELSE "up"
    /\ pc' = "wait 1"
    /\ UNCHANGED <<detector_vars, running, misread_counts, idx, results, session,
                   store_vars, watch_vars, sound_vars, web_vars, build_vars,
                   threshold_vars, registry_vars, stop_vars>>

\* the left button goes down at pos: the listener calls every handler, and
\* store_click appends the position to storage
MousePressed(pos) ==
    /\ pc \in {"wait 1", "wait 2", "cleanup"}
    /\ button = "up"
    /\ Len(storage) < MaxClicks
    /\ button' = "down"
    /\ storage' = IF "store_click" \in handlers THEN Append(storage, pos) ELSE storage
    /\ UNCHANGED <<detector_vars, runner_vars, store_vars, watch_vars, handlers, sound_vars,
                   web_vars, build_vars,
                   threshold_vars, registry_vars, stop_vars>>

\* the left button goes up: the mouse.wait in progress returns
MouseReleased ==
    /\ pc \in {"wait 1", "wait 2", "cleanup"}
    /\ button = "down"
    /\ button' = "up"
    /\ pc' = CASE pc = "wait 1" -> "wait 2"
               [] pc = "wait 2" -> "cleanup"
               [] OTHER -> pc
    /\ UNCHANGED <<detector_vars, running, misread_counts, idx, results, session,
                   store_vars, watch_vars, handlers, storage, sound_vars, web_vars,
                   build_vars,
                   threshold_vars, registry_vars, stop_vars>>

\* mouse.wait is left by an exception (KeyboardInterrupt while it blocks);
\* get_coords has no try block
GetCoordsWaitRaises ==
    /\ pc \in {"wait 1", "wait 2"}
    /\ pc' = "raised in mouse.wait"
    /\ UNCHANGED <<detector_vars, running, misread_counts, idx, results, session,
                   store_vars, watch_vars, mouse_vars, sound_vars, web_vars,
                   build_vars,
                   threshold_vars, registry_vars, stop_vars>>

\* mouse._listener.handlers = [], return storage
GetCoordsReturn ==
    /\ pc = "cleanup"
    /\ handlers' = {}
    /\ pc' = "returned"
    /\ UNCHANGED <<detector_vars, running, misread_counts, idx, results, session,
                   store_vars, watch_vars, storage, button, sound_vars, web_vars,
                   build_vars,
                   threshold_vars, registry_vars, stop_vars>>

NextCoords ==
    \/ \E held \in BOOLEAN : GetCoordsStart(held)
    \/ \E pos \in Positions : MousePressed(pos)
    \/ MouseReleased
    \/ GetCoordsWaitRaises
    \/ GetCoordsReturn

SpecCoords == Init /\ [][NextCoords]_vars

\* ------------------------------------------------------------ alert sounds
\* the texts read while the sounds play: any count for local_count, which
\* makes the transitions, and one text for each other detector
SoundTexts(d) ==
    IF d = "local_count" THEN {LocalText(n) : n \in 0..MaxCount} ELSE {CalibTexts(d)}

\* the monitor polling while the playback threads run and end
NextSound ==
    \/ RunStart
    \/ LoopEnter(MaxCycles)
    \/ CalibrationNotRequested
    \/ SkipDetector
    \/ DetectorFault
    \/ HandleMisread(LocalMisread)
    \/ \E text \in SoundTexts(Detectors[idx]) : HandleSuccess(text, "none")
    \/ Sleep
    \/ \E t \in playback, outcome \in PlaybackOutcomes : PlaybackEnds(t, outcome)

SpecSound == InitDefault /\ [][NextSound]_vars

\* ------------------------------------------------------- the web dashboard
\* the monitor polling while the web server handles toggle and calibration
\* requests
NextWeb ==
    \/ RunStart
    \/ LoopEnter(MaxCycles)
    \/ CalibrationNotRequested
    \/ CalibrationRequested
    \/ \E clicks \in ClickRects : CalibrateInvalid(clicks)
    \/ \E clicks \in ClickRects : CalibrateApply(clicks)
    \/ SkipDetector
    \/ DetectorFault
    \/ HandleSuccess(CalibTexts(Detectors[idx]), "none")
    \/ Sleep
    \/ \E d \in DetectorNames : RequestCalibration(d)
    \/ \E d \in DetectorNames : ToggleRead(d)
    \/ ToggleWrite

SpecWeb == Init /\ [][NextWeb]_vars

\* ------------------------------------------------- rectangles of any shape
\* every rectangle with corners in the grid: proper, of zero width or height,
\* inverted
AllRects == {Rect(x1, y1, x2, y2) : x1, y1, x2, y2 \in 0..MaxCoord}

\* local_count configured with any rectangle, the other detectors calibrated
InitRect ==
    \E r \in AllRects :
        InitWith([d \in DetectorNames |->
            IF d = "local_count" THEN [DefaultConfig(d) EXCEPT !.coords = r]
            ELSE DefaultConfig(d)])

NextRect ==
    \/ RunStart
    \/ LoopEnter(MaxCycles)
    \/ CalibrationNotRequested
    \/ SkipDetector
    \/ DetectorFault
    \/ HandleMisread(LocalMisread)
    \/ HandleSuccess(CalibTexts(Detectors[idx]), "none")
    \/ Sleep

SpecRect == InitRect /\ [][NextRect]_vars

\* ------------------------------------------------------------------ stop()
\* the monitor polling until stop() is called: the cycles of Next with one
\* text per detector, stop() at any point of run(), and the end of the loop
NextStop ==
    \/ RunStart
    \/ LoopEnter(MaxCycles)
    \/ LoopExit
    \/ Stop
    \/ CalibrationNotRequested
    \/ CalibrationCheckRaises
    \/ SkipDetector
    \/ CoordsCheckRaises
    \/ DetectorFault
    \/ HandleMisread(LocalMisread)
    \/ \E fault \in PersistenceFaults : HandleSuccess(CalibTexts(Detectors[idx]), fault)
    \/ Sleep

SpecStop == Init /\ [][NextStop]_vars

\* ------------------------------------------------------- ThresholdFilter
\* the maxval handed to cv2.threshold, which is also the largest value of a
\* pixel of an 8-bit image
MaxVal == 255

\* cv2.threshold(arr, value, 255, cv2.THRESH_BINARY) on a single-channel
\* 8-bit array: dst = maxval where src > thresh, 0 elsewhere
threshold(pixels, value) ==
    [i \in 1..Len(pixels) |-> IF pixels[i] > value THEN MaxVal ELSE 0]

\* ThresholdFilter(value)
NewThresholdFilter(value) ==
    /\ pc = "start"
    /\ threshold_value' = value
    /\ pc' = "filter"
    /\ UNCHANGED <<detector_vars, running, misread_counts, idx, results, session,
                   store_vars, watch_vars, mouse_vars, sound_vars, web_vars, build_vars,
                   arr, thresh, registry_vars, stop_vars>>

\* ThresholdFilter.apply(image) with a single-channel image: no conversion,
\* the thresholded array is returned
ThresholdApply(image) ==
    /\ pc = "filter"
    /\ arr' = image
    /\ thresh' = threshold(image, threshold_value)
    /\ pc' = "filtered"
    /\ UNCHANGED <<detector_vars, running, misread_counts, idx, results, session,
                   store_vars, watch_vars, mouse_vars, sound_vars, web_vars, build_vars,
                   threshold_value, registry_vars, stop_vars>>

\* a filter of any threshold value applied to an image of any one pixel
NextThreshold ==
    \/ \E value \in 0..MaxVal : NewThresholdFilter(value)
    \/ \E p \in 0..MaxVal : ThresholdApply(<<p>>)

SpecThreshold == InitDefault /\ [][NextThreshold]_vars

\* ------------------------------------------- what local_count reads off
\* "Local [n] Corp [m]", "Local(n)Corp(m)" and "Local [] Corp [m]"
LocalCorpText(n, m) ==
    <<"L", "o", "c", "a", "l", " ", "[">> \o Str(n)
        \o <<"]", " ", "C", "o", "r", "p", " ", "[">> \o Str(m) \o <<"]">>
LocalCorpParenText(n, m) ==
    <<"L", "o", "c", "a", "l", "(">> \o Str(n)
        \o <<")", "C", "o", "r", "p", "(">> \o Str(m) \o <<")">>
LocalCorpMisread(m) ==
    <<"L", "o", "c", "a", "l", " ", "[", "]", " ", "C", "o", "r", "p", " ", "[">>
        \o Str(m) \o <<"]">>

\* the texts of a window that was read well or without its count
WindowTexts ==
    {LocalCorpText(n, m) : n \in 0..MaxLocal, m \in 0..MaxCorp}
        \cup {LocalCorpParenText(n, m) : n \in 0..MaxLocal, m \in 0..MaxCorp}
        \cup {LocalCorpMisread(m) : m \in 0..MaxCorp}

\* the first detect() of a fresh local_count on the text of a window
NextWindow ==
    \E text \in WindowTexts : clock = 0 /\ Detect("local_count", text)

SpecWindow == InitDefault /\ [][NextWindow]_vars

\* the characters of noisy OCR text: the markers, the letter that follows the
\* L of Local, both kinds of bracket, a digit, a sign, a blank
NoiseChars == {"l", "o", "C", "[", "]", "(", ")", "7", "-", " "}

\* what is read between the markers where a bracket was: both kinds of
\* bracket, a digit, a sign, a blank
BracketChars == {"[", "]", "(", ")", "7", "-", " "}

\* every text of at most MaxNoise characters, and every text that has at most
\* MaxInterior bracket characters between the marker l and the marker C
NoiseTexts ==
    UNION {[1..n -> NoiseChars] : n \in 0..MaxNoise}
        \cup {<<"l">> \o mid \o <<"C">> :
                mid \in UNION {[1..n -> BracketChars] : n \in 0..MaxInterior}}

\* the first detect() of a fresh local_count on a noisy text
NextNoise ==
    \E text \in NoiseTexts : clock = 0 /\ Detect("local_count", text)

SpecNoise == InitDefault /\ [][NextNoise]_vars

\* -------------------------------------------------- configure_from_config
\* the dicts configure_from_config is handed, as the list of their items: the
\* names are distinct, one of them is no registered detector, and a
\* det_config has each of its three keys (a one-element tuple) or none
ConfigItems ==
    LET names == DetectorNames \cup {"no_such_detector"}
        det_configs ==
            {[coords |-> <<Rect(0, 0, MaxCoord + 1, MaxCoord + 1)>>, enabled |-> <<e>>,
              pipeline |-> <<"star_background">>] : e \in BOOLEAN}
                \cup {[coords |-> <<>>, enabled |-> <<>>, pipeline |-> <<>>]}
        entries == [name : names, det_config : det_configs]
    IN  {items \in UNION {[1..n -> entries] : n \in 0..MaxItems} :
            \A i, j \in 1..Len(items) : items[i].name = items[j].name => i = j}

\* configure_from_config(config) is entered
ConfigureFromConfigStart(items) ==
    /\ pc = "start"
    /\ config_items' = items
    /\ pc' = "configure" /\ idx' = 1
    /\ UNCHANGED <<detector_vars, running, misread_counts, results, session,
                   store_vars, watch_vars, mouse_vars, sound_vars, web_vars, build_vars,
                   threshold_vars, stop_vars>>

\* ConfigureEntry with an unknown name ending the loop
ConfigureEntry_stops_at_unknown ==
    LET name == config_items[idx].name
        det_config == config_items[idx].det_config
        get(value, default) == IF value = <<>> THEN default ELSE value[1]
    IN  /\ pc = "configure"
        /\ idx <= Len(config_items)
        /\ IF name \in DetectorNames
           THEN /\ coords' = [coords EXCEPT ![name] = get(det_config.coords, <<>>)]
                /\ enabled' = [enabled EXCEPT ![name] = get(det_config.enabled, TRUE)]
                /\ pipeline_name' = [pipeline_name EXCEPT ![name] =
                        get(det_config.pipeline, "default_ocr")]
                /\ idx' = idx + 1
           ELSE /\ idx' = Len(config_items) + 1
                /\ UNCHANGED <<coords, enabled, pipeline_name>>
        /\ UNCHANGED <<last_value, last_raw_text, error_count, running,
                       misread_counts, pc, results, session, store_vars, watch_vars,
                       mouse_vars, sound_vars, web_vars, build_vars, threshold_vars,
                       registry_vars, stop_vars>>

\* configure_from_config, one turn of the loop: a name the registry does not
\* know is logged and passed over; a detector it knows is configured with the
\* three keys of det_config, each with its default where the key is missing
ConfigureEntry ==
    LET name == config_items[idx].name
        det_config == config_items[idx].det_config
        get(value, default) == IF value = <<>> THEN default ELSE value[1]
    IN  /\ pc = "configure"
        /\ idx <= Len(config_items)
        /\ IF name \in DetectorNames
           THEN /\ coords' = [coords EXCEPT ![name] = get(det_config.coords, <<>>)]
                /\ enabled' = [enabled EXCEPT ![name] = get(det_config.enabled, TRUE)]
                /\ pipeline_name' = [pipeline_name EXCEPT ![name] =
                        get(det_config.pipeline, "default_ocr")]
           ELSE UNCHANGED <<coords, enabled, pipeline_name>>
        /\ idx' = idx + 1
        /\ UNCHANGED <<last_value, last_raw_text, error_count, running,
                       misread_counts, pc, results, session, store_vars, watch_vars,
                       mouse_vars, sound_vars, web_vars, build_vars, threshold_vars,
                       registry_vars, stop_vars>>

\* the loop is over, configure_from_config returns
ConfigureFromConfigDone ==
    /\ pc = "configure"
    /\ idx > Len(config_items)
    /\ pc' = "configured"
    /\ UNCHANGED <<detector_vars, running, misread_counts, idx, results, session,
                   store_vars, watch_vars, mouse_vars, sound_vars, web_vars, build_vars,
                   threshold_vars, registry_vars, stop_vars>>

NextRegistry ==
    \/ \E items \in ConfigItems : ConfigureFromConfigStart(items)
    \/ ConfigureEntry
    \/ ConfigureFromConfigDone

SpecRegistry == InitDefault /\ [][NextRegistry]_vars

\* ------------------------------------------------- stop() at any moment
\* the steps of the thread that executes run()
RunStep ==
    \/ RunStart
    \/ LoopEnter(MaxCycles)
    \/ LoopExit
    \/ CalibrationNotRequested
    \/ SkipDetector
    \/ DetectorFault
    \/ HandleMisread(LocalMisread)
    \/ HandleSuccess(CalibTexts(Detectors[idx]), "none")
    \/ Sleep

\* run() on its thread, stop() called from another one before or after run()
\* has raised the flag
NextStopAny ==
    \/ RunStep
    \/ Stop
    \/ StopBeforeRun

\* the thread of run() is not held back for ever
SpecStopAny == InitDefault /\ [][NextStopAny]_vars /\ WF_vars(RunStep)

\* ------------------------------------------ a pipeline name that is none
\* the monitor polling while configure() gives a detector a pipeline name
\* that is no preset, or a preset again
NextPipeline ==
    \/ RunStart
    \/ LoopEnter(MaxCycles)
    \/ CalibrationNotRequested
    \/ SkipDetector
    \/ DetectorFault
    \/ HandleMisread(LocalMisread)
    \/ HandleSuccess(CalibTexts(Detectors[idx]), "none")
    \/ Sleep
    \/ \E d \in DetectorNames, name \in {"no_such_preset", "default_ocr"} :
            Configure(d, coords[d], [pipeline |-> <<name>>, enabled |-> <<>>])

SpecPipeline == InitDefault /\ [][NextPipeline]_vars

\* ================================================================== claims
\* a detect() of detector d returned in this step
Detected(d) == results'[d] # results[d] /\ results'[d] # NoResult
\* ... and its extraction failed / succeeded, told from the OCR text
Misread(d) == Detected(d) /\ IsNone(extract_value(d, results'[d].raw_text))
Successful(d) == Detected(d) /\ ~IsNone(extract_value(d, results'[d].raw_text))

\* C1: a detect() whose extraction fails returns alert_level error with
\* changed false and leaves last_value and last_raw_text as they were, so the
\* next successful detect() is compared against the value of the last
\* successful observation, however many misreads lie in between.
C1_MisreadKeepsValue ==
    [][\A d \in DetectorNames :
        /\ Misread(d) =>
            /\ results'[d].alert_level = "error"
            /\ ~results'[d].changed
            /\ last_value'[d] = last_value[d]
            /\ last_raw_text'[d] = last_raw_text[d]
        /\ Successful(d) =>
            results'[d].changed = (results'[d].value # last_good[d])]_vars

\* C1 witness: a second misread in a row after a count was read, the count kept
C1_Witness ==
    /\ results["local_count"].alert_level = "error"
    /\ fail_run["local_count"] >= 2
    /\ ~IsNone(last_good["local_count"])
    /\ last_value["local_count"] = last_good["local_count"]

\* C2: a successful detect() returns a non-null alert_level only if changed is
\* true and a prior value existed; the first successful detect() of a fresh
\* detector, after any number of misreads, returns alert_level null.
C2_NoAlertWithoutPrior ==
    [][\A d \in DetectorNames : Successful(d) =>
        /\ results'[d].alert_level # NoLevel =>
                results'[d].changed /\ ~IsNone(last_value[d])
        /\ IsNone(last_good[d]) => results'[d].alert_level = NoLevel]_vars

\* C2 witness: the first count local_count reads, after misreads and nothing
\* else (no other detector was called, and the call is not the first one)
C2_Witness ==
    /\ ~IsNone(results["local_count"].value)
    /\ results["local_count"].changed
    /\ results["local_count"].alert_level = NoLevel
    /\ results["local_count"].timestamp >= 1
    /\ results["overview"] = NoResult /\ results["targets"] = NoResult
    /\ pipeline_name["local_count"] \in Presets

\* C3: a successful detect() with prior value old and new value v has
\* changed = (v # old) and alert_level increase if v > old, decrease if
\* v < old, null if v = old; afterwards last_value = v, last_raw_text is the
\* OCR text and the error counter is 0.
C3_ChangeAndDirection ==
    [][\A d \in DetectorNames : Successful(d) =>
        LET v == extract_value(d, results'[d].raw_text)
            old == last_value[d]
        IN  /\ results'[d].value = v
            /\ results'[d].changed = (v # old)
            /\ ~IsNone(old) =>
                /\ v[1] > old[1] => results'[d].alert_level = "increase"
                /\ v[1] < old[1] => results'[d].alert_level = "decrease"
                /\ v[1] = old[1] => results'[d].alert_level = NoLevel
            /\ last_value'[d] = v
            /\ last_raw_text'[d] = Some(results'[d].raw_text)
            /\ error_count'[d] = 0]_vars

\* C3 witness: overview read a count, then the same count again, then fewer
C3_Witness ==
    /\ results["overview"].alert_level = "decrease"
    /\ results["overview"].timestamp >= 2
    /\ results["local_count"] = NoResult /\ results["targets"] = NoResult
    /\ last_value["overview"] = results["overview"].value
    /\ error_count["overview"] = 0

\* C4: within a run of consecutive extraction failures of a detector the
\* runner plays the error alert exactly on failures 1, 5, 9, ... of the run
\* (occurrence k with k mod 4 = 1) and on no other failure.
C4_ErrorAlertEveryFourth ==
    \A d \in DetectorNames :
        /\ results[d].alert_level = "error" =>
                (alerts[d] = "error" <=> fail_run[d] % 4 = 1)
        /\ results[d].alert_level # "error" => alerts[d] # "error"

\* C4 witness: the ninth failure in a row, alerted
C4_Witness ==
    /\ results["local_count"].alert_level = "error"
    /\ fail_run["local_count"] = 9
    /\ alerts["local_count"] = "error"

\* C5 as claimed: at every cycle boundary the misread counter equals the
\* number of consecutive extraction failures since the last success.
C5_CounterIsFailureRun ==
    pc \in {"loop", "sleep"} =>
        \A d \in DetectorNames : misread_counts[d] = fail_run[d]

\* C5 as amended: the counter is 0 after a success and ((k - 1) mod 4) + 1
\* after k >= 1 consecutive failures: it is set back to 1 with every error
\* alert, so it counts the failures since the last error alert.
C5_CounterIsFailureRunInPeriod ==
    \A d \in DetectorNames :
        misread_counts[d] =
            IF fail_run[d] = 0 THEN 0 ELSE ((fail_run[d] - 1) % 4) + 1

\* C5 witness: the sixth failure in a row handled, the counter at 2
C5_Witness ==
    /\ pc = "sleep"
    /\ fail_run["local_count"] = 6
    /\ misread_counts["local_count"] = 2

\* C6 as claimed: on a successful result the DetectorState is persisted, and
\* an alert is triggered and exactly one event appended if and only if the
\* result has changed = true and a non-null alert_level; an error result
\* persists nothing and appends no event.  A write that raises is read as the
\* loss of that write alone (the row, or the event, stays as it was).
C6_SuccessPersistedTransitionAlerted ==
    [][\A d \in DetectorNames :
        /\ Successful(d) =>
            LET r == results'[d]
                transition == r.changed /\ r.alert_level # NoLevel
                row == [enabled |-> enabled[d], value |-> r.value,
                        last_changed |-> IF r.changed THEN Some(r.timestamp) ELSE None,
                        raw_text |-> Some(r.raw_text)]
            IN  /\ db_state'[d] \in {row, db_state[d]}
                /\ (alerts'[d] # NoLevel) <=> transition
                /\ transition =>
                        \/ db_events' = db_events
                        \/ /\ Len(db_events') = Len(db_events) + 1
                           /\ SubSeq(db_events', 1, Len(db_events)) = db_events
                           /\ db_events'[Len(db_events')].detector = d
                /\ ~transition => db_events' = db_events
        /\ Misread(d) => db_state' = db_state /\ db_events' = db_events]_vars

\* C7 as claimed: an appended event has old_value equal to the detector's
\* last value before the detection and new_value equal to the detected value,
\* so old_value # new_value, old_value < new_value for an increase and
\* old_value > new_value for a decrease.
C7_EventHoldsOldAndNewValue ==
    [][Len(db_events') = Len(db_events) + 1 =>
        LET e == db_events'[Len(db_events')]
        IN  /\ e.old_value = last_value[e.detector]
            /\ e.new_value = results'[e.detector].value
            /\ e.old_value # e.new_value
            /\ e.event_type = "increase" => e.old_value[1] < e.new_value[1]
            /\ e.event_type = "decrease" => e.old_value[1] > e.new_value[1]]_vars

\* the detectors after the one at idx that run_once would capture
LeftOut == {Detectors[j] : j \in {k \in (idx + 1)..Len(Detectors) : Captured(Detectors[k])}}

\* C8 as claimed: a fault while one detector is handled never keeps another
\* enabled detector with a valid rectangle from being captured and detected
\* in that cycle, and never changes another detector's last value or misread
\* counter.
C8_FaultsStayWithTheirDetector ==
    /\ [](pc = "raised in coords_valid" => LeftOut = {})
    /\ [][pc = "detect" =>
            \A e \in DetectorNames \ {Detectors[idx]} :
                /\ last_value'[e] = last_value[e]
                /\ misread_counts'[e] = misread_counts[e]]_vars

\* C9 as claimed: a failure of a persistence call made during a cycle (the
\* calibration-flag read or clear, the DetectorState write, the event append)
\* is caught and the loop goes on; it never ends run().
C9_PersistenceFailureNeverEndsRun ==
    pc # "raised in check_calibration_request"

\* C10 as claimed: the request flag of a detector is cleared only once the
\* recaptured rectangle has been applied and persisted, so never before the
\* recapture and never for a recapture that gave no valid rectangle.
C10_FlagClearedAfterPersist ==
    [][\A d \in DetectorNames :
        (db_calib[d] /\ ~db_calib'[d]) =>
            /\ pc = "calibrate"
            /\ coords_valid(coords'[d])
            /\ saved_coords'[d] = coords'[d]]_vars

\* C10 amended: the request is cleared by the read that finds it, before the
\* recapture, and that read changes no rectangle; the recapture that follows
\* never touches the request again; a rectangle changes only in that
\* recapture, only for the requested detector and only to a valid rectangle,
\* which is then saved unless config.save raises; a recapture that gives no
\* valid rectangle leaves the rectangles and the cleared request as they are.
C10_FlagClearedOnReadThenRecapture ==
    [][LET d == Detectors[idx]
           recapture == pc = "calibrate" /\ pc' # "calibrate"
       IN  /\ (pc = "calib" /\ pc' = "calibrate") =>
                /\ db_calib[d] /\ ~db_calib'[d]
                /\ coords' = coords /\ saved_coords' = saved_coords
           /\ (\E e \in DetectorNames : db_calib[e] /\ ~db_calib'[e]) =>
                (pc = "calib" /\ pc' = "calibrate")
           /\ recapture => db_calib' = db_calib
           /\ (coords' # coords \/ saved_coords' # saved_coords) =>
                /\ recapture
                /\ coords_valid(coords'[d])
                /\ \A e \in DetectorNames \ {d} :
                        coords'[e] = coords[e] /\ saved_coords'[e] = saved_coords[e]
                /\ \/ saved_coords'[d] = coords'[d]
                   \/ saved_coords' = saved_coords /\ pc' = "raised in config.save"]_vars

\* a request has been made and consumed, and the recaptured rectangle is the
\* detector's rectangle and the saved one, while the runner goes on
C10_Witness ==
    \E d \in DetectorNames :
        /\ n_requests > 0 /\ ~db_calib[d]
        /\ coords[d] = Rect(0, 0, MaxCoord + 1, MaxCoord + 1)
        /\ saved_coords[d] = coords[d]
        /\ pc \in {"calib", "detect", "sleep"}

C12_CapturedExactlyEnabledAndValid ==
    /\ [](captured \subseteq {d \in DetectorNames : Captured(d)})
    /\ [](pc \in {"sleep", "raised in coords_valid"} =>
            \A d \in DetectorNames : Captured(d) => d \in captured)
    /\ [][\A d \in DetectorNames :
            (pc = "detect" /\ ~Captured(d)) =>
                /\ last_value'[d] = last_value[d]
                /\ error_count'[d] = error_count[d]
                /\ misread_counts'[d] = misread_counts[d]
                /\ db_state'[d] = db_state[d]]_vars

\* C13: calibrate_all captures a region for every registered detector,
\* enabled or not, in registration order; no rectangle of a detector and no
\* saved rectangle changes before the last region is captured; the saved
\* configuration changes in the one step that follows it, where every valid
\* captured rectangle is applied and saved; a capture that aborts leaves every
\* rectangle and the saved configuration as they were.
C13_FullCalibrationAppliesAtTheEnd ==
    /\ [][/\ session' # session /\ pc = "calibrate_all" =>
                /\ Len(session') = Len(session) + 1
                /\ idx = Len(session')
                /\ coords' = coords /\ saved_coords' = saved_coords
          /\ (coords' # coords \/ saved_coords' # saved_coords) =>
                /\ pc = "on_complete" /\ Len(session) = Len(Detectors)
                /\ pc' \in {"calibrated", "raised in config.save"}
          /\ saved_coords' # saved_coords => pc' = "calibrated"
          /\ pc = "calibrated" => saved_coords' = saved_coords /\ coords' = coords
          /\ pc' = "raised in get_coords" =>
                coords' = coords /\ saved_coords' = saved_coords]_vars
    /\ [](pc = "raised in get_coords" => coords = saved_coords)
    /\ [](pc = "calibrated" =>
            \A i \in 1..Len(Detectors) :
                coords_valid(session[i]) =>
                    /\ coords[Detectors[i]] = session[i]
                    /\ saved_coords[Detectors[i]] = session[i])

\* the full calibration is over: targets, which is disabled, was prompted
\* for last and has the clicked rectangle, as has local_count, and both are
\* saved
C13_Witness ==
    /\ pc = "calibrated"
    /\ ~enabled["targets"]
    /\ session = <<Rect(0, 0, MaxCoord + 1, MaxCoord + 1), Rect(0, 0, 0, 0),
                   Rect(MaxCoord, MaxCoord, MaxCoord + 1, MaxCoord + 1)>>
    /\ saved_coords["local_count"] = session[1]
    /\ saved_coords["targets"] = session[3]
    /\ coords["overview"] # session[2]

\* C14 as claimed: get_coords returns only after two waits have returned,
\* and whenever it has returned or has been left by an exception no handler
\* it registered is still in the listener.
C14_HandlersRemovedOnEveryExit ==
    /\ [][pc' = "returned" /\ pc # "returned" => pc = "cleanup"]_vars
    /\ [](pc \in {"returned", "raised in mouse.wait"} => "store_click" \notin handlers)

\* C15: when the runner triggers an alert with the player enabled, the
\* playback is still running when the handling of the detector is over and
\* the cycle has moved on; the end of a playback, whatever its outcome,
\* leaves the position of run(), the detectors, the misread counters, the
\* results, the persisted state and the events as they are.
C15_AlertsAreFireAndForget ==
    [][/\ \A d \in DetectorNames :
            (Detected(d) /\ alerts'[d] # NoLevel /\ sound_enabled) =>
                /\ [detector |-> d, level |-> alerts'[d], at |-> clock] \in playback'
                /\ pc' \in {"detect", "sleep"}
       /\ playback' \subseteq playback /\ playback' # playback =>
            UNCHANGED <<detector_vars, runner_vars, store_vars, watch_vars, web_vars, build_vars>>]_vars

\* a playback found no backend and disabled the player while the cycle that
\* triggered it went on to persist the next detector's state, and the event
\* of the transition is recorded
C15_Witness ==
    /\ ~sound_enabled
    /\ playback = {}
    /\ Len(db_events) = 1 /\ db_events[1].detector = "local_count"
    /\ db_state["overview"].value # None
    /\ clock = 2 /\ pc = "sleep"

\* C16 as claimed: a DetectorState row or a calibration flag changes only in
\* a step of the runner, so a row the runner has written stays as written
\* until the runner writes it again.
C16_RunnerIsTheOnlyWriter ==
    [][(db_state' # db_state \/ db_calib' # db_calib) =>
            (pc \in {"calib", "calibrate", "detect"} /\ <<pc, idx>>' # <<pc, idx>>)]_vars

\* C17: a step outside detect() that changes last_value, last_raw_text or
\* the error counter of a detector is reset(): it leaves them at null, null
\* and 0 and changes nothing else; and a successful detect() on a detector
\* whose last_value is null, as it is after reset(), returns changed = true
\* with alert_level null.
C17_ResetRebaselines ==
    [][\A d \in DetectorNames :
        /\ (clock' = clock /\ <<last_value[d], last_raw_text[d], error_count[d]>>' #
                              <<last_value[d], last_raw_text[d], error_count[d]>>) =>
                /\ last_value'[d] = None /\ last_raw_text'[d] = None
                /\ error_count'[d] = 0
                /\ UNCHANGED <<enabled, coords, pipeline_name, runner_vars, store_vars,
                               watch_vars, build_vars>>
                /\ \A e \in DetectorNames \ {d} :
                        /\ last_value'[e] = last_value[e]
                        /\ last_raw_text'[e] = last_raw_text[e]
                        /\ error_count'[e] = error_count[e]
        /\ (Successful(d) /\ last_value[d] = None) =>
                results'[d].alert_level = NoLevel /\ results'[d].changed]_vars

\* local_count read 0 and then 1, which gave an alert, and was reset: it
\* holds no value, text or error count while its last result is still the 1
C17_Witness ==
    /\ results["local_count"].value = Some(1)
    /\ results["local_count"].alert_level = "increase"
    /\ last_good["local_count"] = Some(1)
    /\ last_value["local_count"] = None
    /\ last_raw_text["local_count"] = None
    /\ error_count["local_count"] = 0

\* C18: a step that changes the rectangle, the pipeline name or the enabled
\* flag of a detector, which is what configure() does, leaves last_value,
\* last_raw_text and the error counter of every detector unchanged.
C18_ConfigureKeepsState ==
    [][<<coords, pipeline_name, enabled>>' # <<coords, pipeline_name, enabled>> =>
            UNCHANGED <<last_value, last_raw_text, error_count>>]_vars

\* local_count holds the value 1 and one failed extraction since, and has
\* been given a new rectangle and pipeline and been disabled
C18_Witness ==
    /\ coords["local_count"] = Rect(0, 0, MaxCoord + 1, MaxCoord + 1)
    /\ pipeline_name["local_count"] = "star_background"
    /\ ~enabled["local_count"]
    /\ last_value["local_count"] = Some(1)
    /\ error_count["local_count"] = 1

\* C19: an ImageProcessor is produced only with a filter for every configured
\* name, in order, all of the registry; while it is built no configured name
\* has been passed over; the first name that is not in the registry ends the
\* construction with the error, as does a preset name that is unknown, and
\* then no filter is built any more and no ImageProcessor is produced.
C19_UnknownFilterFailsTheBuild ==
    /\ [](pc = "built" =>
            /\ filters = filter_config
            /\ \A i \in 1..Len(filter_config) : filter_config[i] \in FILTER_REGISTRY)
    /\ [](pc = "build" => filters = SubSeq(filter_config, 1, idx - 1))
    /\ [](pc = "raised in create_filter" =>
            /\ filter_config[idx] \notin FILTER_REGISTRY
            /\ filters = SubSeq(filter_config, 1, idx - 1))
    /\ [][(pc \in {"raised in create_filter", "raised in from_preset"}) =>
            (pc' = pc /\ filters' = filters)]_vars
    /\ [][(pc = "build" /\ idx <= Len(filter_config)
                /\ filter_config[idx] \notin FILTER_REGISTRY) =>
            pc' = "raised in create_filter"]_vars

\* the construction ended on the unknown second name of three, with one
\* filter built and the third name never reached
C19_Witness ==
    /\ pc = "raised in create_filter"
    /\ filter_config = <<"upscale", "sharpen", "grayscale">>
    /\ filters = <<"upscale">>

\* C20: for the rectangle (x1, y1, x2, y2) of every detector, coords_valid is
\* true exactly if x2 > x1 and y2 > y1, and a detector whose rectangle has
\* zero width or height or is inverted is never captured by the runner.
C20_ValidIffProperRectangle ==
    \A d \in DetectorNames :
        LET x1 == coords[d][1][1]  y1 == coords[d][1][2]
            x2 == coords[d][2][1]  y2 == coords[d][2][2]
        IN  /\ coords_valid(coords[d]) <=> (x2 > x1 /\ y2 > y1)
            /\ d \in captured => (x2 > x1 /\ y2 > y1)

\* a cycle is over in which local_count, whose rectangle has zero width, was
\* passed over and overview was captured
C20_Witness ==
    /\ pc = "sleep"
    /\ coords["local_count"] = Rect(0, 0, 0, MaxCoord)
    /\ enabled["local_count"]
    /\ "local_count" \notin captured
    /\ "overview" \in captured

\* C21 as claimed: Threshold(value) maps every pixel p of 0..255 to 255 if
\* p >= value and to 0 otherwise, for every value of 0..255; a pixel equal to
\* the value maps to 255.
C21_ThresholdIsInclusive ==
    pc = "filtered" =>
        \A i \in 1..Len(arr) :
            thresh[i] = IF arr[i] >= threshold_value THEN MaxVal ELSE 0

\* C22: for every N and M, extraction of "Local [N] Corp [M]" and of
\* "Local(N)Corp(M)" returns N, and extraction of "Local [] Corp [M]" fails.
C22_WindowTextYieldsCount ==
    LET r == results["local_count"]
    IN  r # NoResult =>
            \A n \in 0..MaxLocal, m \in 0..MaxCorp :
                /\ r.raw_text \in {LocalCorpText(n, m), LocalCorpParenText(n, m)} =>
                        /\ r.value = Some(n)
                        /\ last_value["local_count"] = Some(n)
                /\ r.raw_text = LocalCorpMisread(m) =>
                        /\ r.value = None
                        /\ r.alert_level = "error"

\* "Local(12)Corp(1)" was read as 12
C22_Witness ==
    /\ results["local_count"].raw_text = LocalCorpParenText(12, 1)
    /\ results["local_count"].value = Some(12)

\* C23 as claimed: for every text that contains no opening bracket, LocalCount
\* extraction returns failure, never a number.
C23_NoBracketFails ==
    LET r == results["local_count"]
    IN  (r # NoResult /\ \A k \in 1..Len(r.raw_text) : r.raw_text[k] \notin {"[", "("}) =>
            r.value = None

\* C23 amended: for a text that contains no opening bracket extraction fails,
\* except where nothing but blanks lies between the two markers: then it
\* returns 0.
C23_NoBracketFailsUnlessBlank ==
    LET r == results["local_count"]
        t == r.raw_text
        \* t has the marker l (the first l, or the one after it when the first
        \* is followed by o) before the marker C (the first C) with nothing
        \* but blanks between the two
        BlankBetweenMarkers ==
            \E i, j \in 1..Len(t) :
                /\ t[i] = "l" /\ t[j] = "C" /\ i < j
                /\ \A k \in 1..(j - 1) : t[k] # "C"
                /\ \A k \in (i + 1)..(j - 1) : t[k] = " "
                /\ \/ /\ \A k \in 1..(i - 1) : t[k] # "l"
                      /\ t[i + 1] # "o"
                   \/ \E h \in 1..(i - 1) :
                        /\ t[h] = "l" /\ t[h + 1] = "o"
                        /\ \A k \in 1..(i - 1) : t[k] = "l" => k = h
    IN  (r # NoResult /\ \A k \in 1..Len(t) : t[k] \notin {"[", "("}) =>
            r.value = IF BlankBetweenMarkers THEN Some(0) ELSE None

\* "l 7 C", no bracket and a digit between the markers, was a misread
C23_Witness ==
    /\ results["local_count"].raw_text = <<"l", " ", "7", " ", "C">>
    /\ results["local_count"].value = None
    /\ results["local_count"].alert_level = "error"

\* C24 as claimed: LocalCount extraction never raises; it returns failure or
\* an unsigned integer that is the decimal reading of a digits-only bracket
\* interior, and a bracket interior with a sign, a letter or a separator in
\* it yields failure.
C24_OnlyUnsignedDigitsAreRead ==
    LET r == results["local_count"]
        t == r.raw_text
        \* t has a bracket pair whose interior is a run of digits that reads v
        DigitsInBrackets(v) ==
            \E i, j \in 1..Len(t) :
                /\ i + 1 < j
                /\ t[i] \in {"[", "("} /\ t[j] \in {"]", ")"}
                /\ \A k \in (i + 1)..(j - 1) : IsDigit(t[k])
                /\ v = Some(DigitsValue(SubSeq(t, i + 1, j - 1)))
    IN  r # NoResult =>
            \/ r.value = None
            \/ /\ r.value[1] >= 0
               /\ DigitsInBrackets(r.value)

\* C25 as claimed: when the text between the markers l and C has an opening
\* [ closed by ), an opening ( closed by ], or brackets of both kinds,
\* LocalCount extraction returns no value.
C25_MixedBracketsFailClosed ==
    LET r == results["local_count"]
        t == r.raw_text
        square == \E k \in 2..(Len(t) - 1) : t[k] \in {"[", "]"}
        round == \E k \in 2..(Len(t) - 1) : t[k] \in {"(", ")"}
    IN  (/\ r # NoResult
         /\ Len(t) >= 2 /\ t[1] = "l" /\ t[Len(t)] = "C"
         /\ \A k \in 2..(Len(t) - 1) : t[k] \in BracketChars
         /\ square /\ round) =>
            r.value = None

\* C26: configure_from_config with a dict that holds unknown names does not
\* raise and registers nothing; when it returns, every registered detector
\* the dict names has the rectangle, the enabled flag and the pipeline of its
\* entry (the default of a missing key), wherever the entry stands, and every
\* registered detector the dict does not name is as it was.
C26_UnknownNamesArePassedOver ==
    /\ pc \in {"start", "configure", "configured"}
    /\ DOMAIN coords = DetectorNames /\ DOMAIN enabled = DetectorNames
    /\ DOMAIN pipeline_name = DetectorNames
    /\ pc = "configured" =>
        \A d \in DetectorNames :
            LET at == {i \in 1..Len(config_items) : config_items[i].name = d}
                c == config_items[CHOOSE i \in at : TRUE].det_config
            IN  IF at = {}
                THEN /\ coords[d] = DefaultConfig(d).coords
                     /\ enabled[d] = DefaultConfig(d).enabled
                     /\ pipeline_name[d] = DefaultConfig(d).pipeline
                ELSE /\ coords[d] = IF c.coords = <<>> THEN <<>> ELSE c.coords[1]
                     /\ enabled[d] = IF c.enabled = <<>> THEN TRUE ELSE c.enabled[1]
                     /\ pipeline_name[d] =
                            IF c.pipeline = <<>> THEN "default_ocr" ELSE c.pipeline[1]

\* the dict named an unknown detector first and targets second, overview and
\* local_count not at all; targets is configured and enabled
C26_Witness ==
    /\ pc = "configured"
    /\ Len(config_items) = 2
    /\ config_items[1].name = "no_such_detector"
    /\ config_items[2].name = "targets"
    /\ enabled["targets"]
    /\ pipeline_name["targets"] = "star_background"
    /\ coords["targets"] = Rect(0, 0, MaxCoord + 1, MaxCoord + 1)
    /\ coords["overview"] = DefaultConfig("overview").coords

\* C27 as claimed: no detected transition is lost.  Whenever detect() returns
\* changed with an alert level and has moved the detector's last value, the
\* alert of that transition is triggered, also when a persistence call of the
\* cycle fails.  (detect() has moved last_value by then, so no later cycle
\* sees the transition again: it is alerted in the cycle that detects it.)
C27_NoTransitionIsLost ==
    [][\A d \in DetectorNames :
        (/\ Successful(d)
         /\ results'[d].changed /\ results'[d].alert_level # NoLevel
         /\ last_value'[d] = results'[d].value) =>
            alerts'[d] = results'[d].alert_level]_vars

\* C28 as claimed: whenever stop() is called, before run() has entered its
\* loop, during a cycle or during the sleep, run() eventually returns and
\* begins no cycle after the call; run() never raises the running flag over
\* a stop request.
C28_StopRequestIsKept ==
    /\ [][stop_requested => ~(~running /\ running')]_vars
    /\ [][stop_requested => ~(pc = "loop" /\ pc' = "calib")]_vars
    /\ stop_requested ~> (pc = "done")

\* C29 as claimed: after a successful cycle of a detector the persisted
\* DetectorState holds the detector's last value, and its last_changed is the
\* timestamp of the most recent cycle whose result had changed = true: the
\* timestamp of this cycle if its result changed, and what the row held
\* before if it did not.
C29_LastChangedIsKept ==
    [][\A d \in DetectorNames : Successful(d) =>
        /\ db_state'[d].value = last_value'[d]
        /\ db_state'[d].last_changed =
                IF results'[d].changed THEN Some(results'[d].timestamp)
                ELSE db_state[d].last_changed]_vars

\* C30: configure() takes a pipeline name that is no preset as it is.  While
\* a detector has such a name, every cycle that handles it is a fault and no
\* misread: detect() returns nothing (no OCR text, no result), last_value,
\* last_raw_text and the error counter stay, the misread counter stays, no
\* alert is played, and no row or event is written; the other detectors are
\* handled as always.
C30_UnknownPipelineIsAFault ==
    [][\A d \in DetectorNames :
        (/\ pc = "detect" /\ Detectors[idx] = d
         /\ (pc' # pc \/ idx' # idx)
         /\ Captured(d)
         /\ pipeline_name[d] \notin {"default_ocr", "star_background", "high_contrast"}) =>
            /\ results'[d] = NoResult
            /\ last_value'[d] = last_value[d]
            /\ last_raw_text'[d] = last_raw_text[d]
            /\ error_count'[d] = error_count[d]
            /\ misread_counts' = misread_counts
            /\ alerts'[d] = NoLevel /\ playback' = playback
            /\ db_state' = db_state /\ db_events' = db_events
            /\ d \in captured']_vars

\* local_count read 0 in the first cycle, was then given a name that is no
\* preset, and the second cycle went by it: no result, its value and its row
\* kept, overview read as always
C30_Witness ==
    /\ pc = "sleep" /\ clock = 2
    /\ pipeline_name["local_count"] = "no_such_preset"
    /\ "local_count" \in captured
    /\ results["local_count"] = NoResult
    /\ last_value["local_count"] = Some(0)
    /\ db_state["local_count"].value = Some(0)
    /\ misread_counts["local_count"] = 0
    /\ results["overview"].value = Some(0)

====
